---- MODULE Spec2Model ----
(***************************************************************************)
(* Model of the task fabric: NameService (nameservice/nameservice.py),     *)
(* Dispatcher (dispatcher/dispatcher.py) and Worker (worker/worker.py).    *)
(* Datagrams are UDP: a request is handled by a fresh thread; the mutexes  *)
(* (registry_lock, lock) make the blocks they guard atomic.                *)
(***************************************************************************)
EXTENDS Integers, Sequences, FiniteSets, TLC

\* ------------------------------------------------------------------ bounds
MaxTasks == 2
MaxHandlers == 2
MaxTime == 31
MaxDup == 1
MaxBeats == 1
MaxReceived == 2

\* ------------------------------------------------------- program constants
HEARTBEAT_TIMEOUT == 30
WORKER_PORT == 6000

\* ------------------------------------------------------------ input sets
Types == {"reverse", "upper"}
IPs == {"ip1", "ip2"}
Payloads == {<<>>, <<"a", "b">>}

\* "<ip>:<port>" as built by the NameService (f"{ip}:{port}")
Address(ip) == [host |-> ip, port |-> WORKER_PORT]
\* None / missing address
NoAddress == [host |-> "", port |-> 0]
Addresses == {Address(ip) : ip \in IPs}

\* ---------------------------------------------------------------- helpers
Range(s) == {s[i] : i \in DOMAIN s}

\* a remove that removes nothing
SeqRemove_keep(s, x) == s
RECURSIVE SeqRemove(_, _)
\* list.remove(x): removes the first occurrence
SeqRemove(s, x) ==
    IF s = <<>> THEN <<>>
    ELSE IF Head(s) = x THEN Tail(s)
    ELSE <<Head(s)>> \o SeqRemove(Tail(s), x)

\* ------------------------------------------------------------ NameService
\* registry is a dict wtype -> {"address", "last_seen"}; it is kept as the set of
\* its items [type, address, last_seen].
RegHas(reg, wtype) == \E e \in reg : e.type = wtype
RegGet(reg, wtype) == CHOOSE e \in reg : e.type = wtype

\* registry[wtype] = {"address": address, "last_seen": time.time()}
RegSet_keep(reg, wtype, address, t) ==
    reg \cup {[type |-> wtype, address |-> address, last_seen |-> t]}
RegSet(reg, wtype, address, t) ==
    {e \in reg : e.type # wtype}
        \cup {[type |-> wtype, address |-> address, last_seen |-> t]}

\* the content of a REGISTER_WORKER datagram: {"type", "address"}
RegisterContent(wtype, address) == [type |-> wtype, address |-> address]

\* ip = addr[0]; port = 6000; address = f"{ip}:{port}"
RegisterAddress_claimed(content, ip) == content.address
RegisterAddress(content, ip) == Address(ip)

\* REGISTER_WORKER: the address is the datagram's source ip and port 6000
NsRegister(reg, content, ip, t) ==
    RegSet(reg, content.type, RegisterAddress(content, ip), t)

\* time.time() - entry["last_seen"] <= HEARTBEAT_TIMEOUT
IsLive_strict(e, t) == t - e.last_seen < HEARTBEAT_TIMEOUT
IsLive(e, t) == t - e.last_seen <= HEARTBEAT_TIMEOUT

\* The RESPONSE datagram of the NameService, tagged with the request it answers
NsResponse(op, wtype, kind, address, n, workers) ==
    [op |-> op, type |-> wtype, kind |-> kind, address |-> address,
     n |-> n, workers |-> workers]
NoReply == NsResponse("none", "", "none", NoAddress, 0, {})

\* A datagram received by the NameService: its type, the "type" and "address" of its
\* content, and its source ip (addr[0])
NsRequest(op, wtype, address, src) ==
    [op |-> op, type |-> wtype, address |-> address, src |-> src]
NoRequest == NsRequest("none", "", NoAddress, "")

\* LOOKUP_WORKER: the response
NsLookup(reg, wtype, t) ==
    IF RegHas(reg, wtype) /\ IsLive(RegGet(reg, wtype), t)
    THEN NsResponse("LOOKUP_WORKER", wtype, "address", RegGet(reg, wtype).address, 0, {})
    ELSE NsResponse("LOOKUP_WORKER", wtype, "error", NoAddress, 0, {})

\* DEREGISTER_WORKER: removes every entry whose address is the sender's
NsDeregister_all(reg, ip) == {}
NsDeregister(reg, ip) == {e \in reg : e.address # Address(ip)}

\* HEARTBEAT: refreshes every entry whose address is the sender's
NsHeartbeat_all(reg, ip, t) == {[e EXCEPT !.last_seen = t] : e \in reg}
NsHeartbeat_live(reg, ip, t) ==
    {IF e.address = Address(ip) /\ IsLive(e, t) THEN [e EXCEPT !.last_seen = t] ELSE e :
        e \in reg}
NsHeartbeat(reg, ip, t) ==
    {IF e.address = Address(ip) THEN [e EXCEPT !.last_seen = t] ELSE e : e \in reg}

\* LIST_WORKERS: the live entries, as {type, address}
NsList(reg, t) ==
    {[type |-> e.type, address |-> e.address] : e \in {x \in reg : IsLive(x, t)}}

\* ----------------------------------------------------------------- Worker
ALLOWED_TASK_TYPES == {"reverse", "upper"}

RECURSIVE Reverse(_)
\* worker_types/reverse.py: payload[::-1]
Reverse(s) == IF s = <<>> THEN <<>> ELSE Reverse(Tail(s)) \o <<Head(s)>>

UpperChar(c) == IF c = "a" THEN "A" ELSE IF c = "b" THEN "B" ELSE c
\* worker_types/upper.py: payload.upper()
Upper(s) == [i \in DOMAIN s |-> UpperChar(s[i])]

\* a payload that is not a str (a JSON number), and isinstance(payload, str)
NotAString == <<"not a str">>
IsString(payload) == payload # NotAString

\* process_task: the result sent back for a task of this type and payload; an
\* exception of the handler becomes f"Error processing task: {e}"
ErrorResult == <<"Error processing task: Invalid task type">>
PayloadErrorResult == <<"Error processing task: Payload must be a string">>
Handle(type, payload) ==
    IF type \notin ALLOWED_TASK_TYPES THEN ErrorResult
    ELSE IF ~IsString(payload) THEN PayloadErrorResult
    ELSE IF type = "reverse" THEN Reverse(payload)
    ELSE Upper(payload)

\* ------------------------------------------------------------- Dispatcher
\* result=None of a freshly created Task
None == <<"None">>
\* Python truthiness of task.result
Truthy_notnone(r) == r # None
Truthy(r) == r # None /\ r # <<>>

\* Task(id=..., status="pending", result=None, assigned_worker=None)
NewTask(id, type, payload, t) ==
    [id |-> id, type |-> type, payload |-> payload, result |-> None,
     status |-> "pending", timestamp_created |-> t, timestamp_completed |-> 0,
     assigned_worker |-> NoAddress]

\* task_id_counter += 1
NextId_stale(c) == c
NextId(c) == c + 1

\* worker_busy.get(worker_address, False)
BusyGet(busy, address) == IF address \in DOMAIN busy THEN busy[address] ELSE FALSE
\* worker_busy[address] = value
BusySet(busy, address, value) ==
    [a \in DOMAIN busy \cup {address} |-> IF a = address THEN value ELSE busy[a]]

\* the test of line 101: not worker_address or worker_busy.get(worker_address, False)
SkipTask_nobusy(busy, address) == address = NoAddress
SkipTask_noaddress(busy, address) == BusyGet(busy, address)
SkipTask(busy, address) == address = NoAddress \/ BusyGet(busy, address)

RECURSIVE SumOver(_, _)
SumOver(S, f) ==
    IF S = {} THEN 0
    ELSE LET x == CHOOSE y \in S : TRUE IN f[x] + SumOver(S \ {x}, f)

\* round(total / count, 2), in hundredths of a second
Round2(total, count) == (200 * total + count) \div (2 * count)

Duration(task) == task.timestamp_completed - task.timestamp_created
DoneIds(results) == {i \in DOMAIN results : results[i].status = "done"}

\* lines 255-262: the average over all done tasks
AvgCompletion(results, old) ==
    IF DoneIds(results) = {} THEN old
    ELSE Round2(SumOver(DoneIds(results), [i \in DOMAIN results |-> Duration(results[i])]),
                Cardinality(DoneIds(results)))

\* lines 264-275: the averages per task type
AvgByWorker(results) ==
    [w \in {results[i].type : i \in DoneIds(results)} |->
        LET ids == {i \in DoneIds(results) : results[i].type = w}
        IN Round2(SumOver(ids, [i \in DOMAIN results |-> Duration(results[i])]),
                  Cardinality(ids))]

\* lines 142-143
StatsOnPost(stats) ==
    [stats EXCEPT !.open_tasks = @ + 1, !.total_tasks = @ + 1]

\* lines 250-275, for a task found in task_results
StatsOnResult_keepopen(stats, results) ==
    [stats EXCEPT !.completed_tasks = @ + 1,
                  !.avg_completion_time = AvgCompletion(results, @),
                  !.avg_completion_by_worker = AvgByWorker(results)]
StatsOnResult(stats, results) ==
    [stats EXCEPT !.completed_tasks = @ + 1,
                  !.open_tasks = @ - 1,
                  !.avg_completion_time = AvgCompletion(results, @),
                  !.avg_completion_by_worker = AvgByWorker(results)]

VARIABLES
    registry,        \* NameService: the registry
    now,             \* wall clock (time.time()), in seconds
    ns_reply,        \* the last RESPONSE the NameService sent
    ns_request,      \* the datagram that RESPONSE answers
    task_queue,      \* Dispatcher: ids of the queued Task objects, in order
    task_results,    \* Dispatcher: id -> Task
    task_id_counter, \* Dispatcher: next id
    worker_busy,     \* Dispatcher: address -> bool
    live_stats,      \* Dispatcher: statistics
    lock,            \* Dispatcher: TRUE while a thread holds the mutex
    handlers,        \* Dispatcher: the handler threads outside the mutex (a bag)
    pass,            \* try_dispatch_tasks: the thread inside the mutex and its locals
    post_replied,    \* id -> number of "Task received, ID = <id>" responses sent
    task_sent,       \* the TASK datagrams sent so far, in order
    task_net,        \* TASK datagrams in flight
    rr_net,          \* RESULT_RETURN datagrams in flight (message -> copies)
    dups,            \* datagrams duplicated by the network so far
    worker,          \* ip -> worker process
    get_reply,       \* the last response to a GET_RESULT
    lookup,          \* lookup_worker: LOOKUP_WORKER datagrams sent by the call, and its outcome
    stats_reply,     \* the last response to a GET_STATS or GET_ALL_TASKS
    disp_reply,      \* the last response dispatcher_loop sent itself
    main,            \* worker process, main thread: where run_worker is
    attempt,         \* worker process: register_with_nameservice, attempts made
    exit_status,     \* worker process: exit status, NotExited while it runs
    task_threads,    \* worker process: the process_task threads running (a bag)
    received,        \* worker process: task id -> TASK datagrams received
    sent             \* worker process: the datagrams it sent (a bag)

ns_vars == <<registry, now, ns_reply, ns_request>>
disp_vars == <<task_queue, task_results, task_id_counter, worker_busy, live_stats,
               lock, handlers, pass, post_replied, task_sent, get_reply>>
net_vars == <<task_net, rr_net, dups>>
serve_vars == <<lookup, stats_reply, disp_reply>>
proc_vars == <<main, attempt, exit_status, task_threads, received, sent>>
vars == <<registry, now, ns_reply, ns_request, task_queue, task_results, task_id_counter,
          worker_busy, live_stats, lock, handlers, pass, post_replied, task_sent,
          task_net, rr_net, dups, worker, get_reply, lookup, stats_reply, disp_reply,
          main, attempt, exit_status, task_threads, received, sent>>

\* A handler thread: the message it handles, where it is, and its locals task_id and
\* task (found: the lookup in task_results gave a Task)
Thread(kind, pc, task_id, found) ==
    [kind |-> kind, pc |-> pc, task_id |-> task_id, found |-> found]
NoThread == Thread("none", "none", 0, FALSE)
NoPass == [thread |-> NoThread, pc |-> "none", queue_copy |-> <<>>, i |-> 0,
           worker_address |-> NoAddress]

BagAdd(bag, m) ==
    [x \in DOMAIN bag \cup {m} |-> IF x = m THEN (IF m \in DOMAIN bag THEN bag[m] ELSE 0) + 1
                                   ELSE bag[x]]
BagRemove(bag, m) ==
    IF bag[m] = 1 THEN [x \in DOMAIN bag \ {m} |-> bag[x]]
    ELSE [bag EXCEPT ![m] = @ - 1]
BagSize(bag) == SumOver(DOMAIN bag, bag)

\* the handler threads alive
Running == BagSize(handlers) + (IF lock THEN 1 ELSE 0)

NsInit ==
    /\ registry = {}
    /\ now = 0
    /\ ns_reply = NoReply
    /\ ns_request = NoRequest

\* lookup_worker has not been called; dispatcher_loop has answered nothing itself
NoLookup == [sent |-> 0, answered |-> FALSE]
NoStatsReply == [kind |-> "none", stats |-> <<>>, tasks |-> <<>>]
ServeInit ==
    /\ lookup = NoLookup
    /\ stats_reply = NoStatsReply
    /\ disp_reply = [type |-> "none", error |-> "none"]

\* exit status of a process that is still running
NotExited == -1
\* the worker process is started: run_worker is about to register
ProcInit ==
    /\ main = "register"
    /\ attempt = 0
    /\ exit_status = NotExited
    /\ task_threads = <<>>
    /\ received = <<>>
    /\ sent = <<>>

Init ==
    /\ NsInit
    /\ ServeInit
    /\ ProcInit
    /\ task_queue = <<>>
    /\ task_results = <<>>
    /\ task_id_counter = 1
    /\ worker_busy = <<>>
    /\ live_stats = [total_tasks |-> 0, completed_tasks |-> 0, open_tasks |-> 0,
                     avg_completion_time |-> 0, avg_completion_by_worker |-> <<>>]
    /\ lock = FALSE
    /\ handlers = <<>>
    /\ pass = NoPass
    /\ post_replied = <<>>
    /\ task_sent = <<>>
    /\ task_net = {}
    /\ rr_net = <<>>
    /\ dups = 0
    /\ worker = [ip \in IPs |-> [state |-> "down", type |-> ""]]
    /\ get_reply = [task_id |-> 0, kind |-> "none", result |-> None]

\* ------------------------------------------------ NameService: handle_request
\* REGISTER_WORKER branch
HandleRegister(wtype, ip, claimed) ==
    /\ ns_request' = NsRequest("REGISTER_WORKER", wtype, claimed, ip)
    /\ registry' = NsRegister(registry, RegisterContent(wtype, claimed), ip, now)
    /\ ns_reply' = NsResponse("REGISTER_WORKER", wtype, "message",
                              RegisterAddress(RegisterContent(wtype, claimed), ip), 0, {})
    /\ UNCHANGED now

\* LOOKUP_WORKER branch
HandleLookup(wtype) ==
    /\ ns_request' = NsRequest("LOOKUP_WORKER", wtype, NoAddress, "")
    /\ ns_reply' = NsLookup(registry, wtype, now)
    /\ UNCHANGED <<registry, now>>

\* DEREGISTER_WORKER branch
HandleDeregister(ip) ==
    /\ ns_request' = NsRequest("DEREGISTER_WORKER", "", NoAddress, ip)
    /\ registry' = NsDeregister(registry, ip)
    /\ ns_reply' = NsResponse("DEREGISTER_WORKER", "", "message", Address(ip),
                              Cardinality(registry \ NsDeregister(registry, ip)), {})
    /\ UNCHANGED now

\* HEARTBEAT branch
HandleHeartbeat(ip) ==
    /\ ns_request' = NsRequest("HEARTBEAT", "", NoAddress, ip)
    /\ registry' = NsHeartbeat(registry, ip, now)
    /\ ns_reply' = NsResponse("HEARTBEAT", "", "message", Address(ip),
                              Cardinality({e \in registry : e.address = Address(ip)}), {})
    /\ UNCHANGED now

\* LIST_WORKERS branch
HandleList ==
    /\ ns_request' = NsRequest("LIST_WORKERS", "", NoAddress, "")
    /\ ns_reply' = NsResponse("LIST_WORKERS", "", "workers", NoAddress, 0,
                              NsList(registry, now))
    /\ UNCHANGED <<registry, now>>

\* d seconds pass
Advance(d) ==
    /\ now + d <= MaxTime
    /\ now' = now + d
    /\ UNCHANGED <<registry, ns_reply, ns_request>>

\* elapsed times between two NameService events: one heartbeat period, and one more
\* second (ages of exactly HEARTBEAT_TIMEOUT and HEARTBEAT_TIMEOUT + 1 both occur)
NsTickSteps == {10, 11}

\* The NameService alone, fed arbitrary datagrams
NsNext ==
    /\ \/ \E wtype \in Types, ip \in IPs, claimed \in Addresses :
              HandleRegister(wtype, ip, claimed)
       \/ \E wtype \in Types : HandleLookup(wtype)
       \/ \E ip \in IPs : HandleDeregister(ip)
       \/ \E ip \in IPs : HandleHeartbeat(ip)
       \/ HandleList
       \/ \E d \in NsTickSteps : Advance(d)
    /\ UNCHANGED <<disp_vars, serve_vars, proc_vars, net_vars, worker>>

SpecNS == Init /\ [][NsNext]_vars

\* ------------------------------------------------------------- Dispatcher
\* dispatcher_loop, lines 392-408: a datagram starts a handler thread
CanStart == Running < MaxHandlers

\* handle_post_task, lines 136-158: the block under the lock
PostTask(type, payload) ==
    /\ CanStart
    /\ ~lock
    /\ task_id_counter <= MaxTasks
    /\ task_id_counter' = NextId(task_id_counter)
    /\ live_stats' = StatsOnPost(live_stats)
    /\ task_queue' = Append(task_queue, task_id_counter)
    /\ task_results' = [i \in DOMAIN task_results \cup {task_id_counter} |->
                          IF i = task_id_counter
                          THEN NewTask(task_id_counter, type, payload, now)
                          ELSE task_results[i]]
    /\ handlers' = BagAdd(handlers, Thread("POST", "dispatch", task_id_counter, TRUE))
    /\ UNCHANGED <<ns_vars, serve_vars, proc_vars, worker_busy, lock, pass, post_replied, get_reply, task_sent,
                   net_vars, worker>>

\* handle_post_task, lines 163-168: the response to the client
PostReply(t) ==
    /\ t \in DOMAIN handlers
    /\ t.kind = "POST"
    /\ t.pc = "reply"
    /\ post_replied' = BagAdd(post_replied, t.task_id)
    /\ handlers' = BagRemove(handlers, t)
    /\ UNCHANGED <<ns_vars, serve_vars, proc_vars, get_reply, task_queue, task_results, task_id_counter,
                   worker_busy, live_stats, lock, pass, task_sent, net_vars, worker>>

\* lines 240-245 on the task found
StoreResult(task, result, t) ==
    [task EXCEPT !.result = result, !.status = "done", !.timestamp_completed = t]

\* handle_result_return, lines 233-282: the block under the lock and the response
ResultReturn(m) ==
    /\ CanStart
    /\ ~lock
    /\ m \in DOMAIN rr_net
    /\ rr_net' = BagRemove(rr_net, m)
    /\ IF m.task_id \in DOMAIN task_results
       THEN /\ task_results' = [task_results EXCEPT
                                   ![m.task_id] = StoreResult(@, m.result, now)]
            /\ task_queue' = SeqRemove(task_queue, m.task_id)
            /\ live_stats' = StatsOnResult(live_stats, task_results')
       ELSE UNCHANGED <<task_results, task_queue, live_stats>>
    /\ handlers' = BagAdd(handlers, Thread("RESULT", "clear", m.task_id,
                                           m.task_id \in DOMAIN task_results))
    /\ UNCHANGED <<ns_vars, serve_vars, proc_vars, task_id_counter, worker_busy, lock, pass, post_replied,
                   get_reply, task_sent, task_net, dups, worker>>

\* line 285: worker_busy[task.assigned_worker] = False
ClearBusy_keep(busy, address) == busy
ClearBusy_all(busy, address) == [a \in DOMAIN busy |-> FALSE]
ClearBusy(busy, address) == BusySet(busy, address, FALSE)

\* handle_result_return, lines 284-286: outside the lock
ResultClearBusy(t) ==
    /\ t \in DOMAIN handlers
    /\ t.kind = "RESULT"
    /\ t.pc = "clear"
    /\ IF t.found /\ task_results[t.task_id].assigned_worker # NoAddress
       THEN worker_busy' = ClearBusy(worker_busy, task_results[t.task_id].assigned_worker)
       ELSE UNCHANGED worker_busy
    /\ handlers' = BagAdd(BagRemove(handlers, t), [t EXCEPT !.pc = "dispatch"])
    /\ UNCHANGED <<ns_vars, serve_vars, proc_vars, task_queue, task_results, task_id_counter, live_stats,
                   lock, pass, post_replied, get_reply, task_sent, net_vars, worker>>

\* task_results.get(task_id) gave a Task
TaskFound_never(results, id) == FALSE
TaskFound(results, id) == id \in DOMAIN results

\* handle_get_result, lines 187-190: task = task_results.get(task_id), under the lock
GetResult(id) ==
    /\ CanStart
    /\ ~lock
    /\ handlers' = BagAdd(handlers, Thread("GET", "answer", id,
                                           TaskFound(task_results, id)))
    /\ UNCHANGED <<ns_vars, serve_vars, proc_vars, task_queue, task_results, task_id_counter, worker_busy,
                   live_stats, lock, pass, post_replied, get_reply, task_sent,
                   net_vars, worker>>

\* lines 192-200: the response, from the task object as it is now
GetResponse(found, task_id, results) ==
    IF found /\ Truthy(results[task_id].result)
    THEN [task_id |-> task_id, kind |-> "result", result |-> results[task_id].result]
    ELSE IF found
    THEN [task_id |-> task_id, kind |-> "Result not ready", result |-> None]
    ELSE [task_id |-> task_id, kind |-> "Task not found", result |-> None]

\* handle_get_result, lines 192-203: outside the lock
GetAnswer(t) ==
    /\ t \in DOMAIN handlers
    /\ t.kind = "GET"
    /\ t.pc = "answer"
    /\ get_reply' = GetResponse(t.found, t.task_id, task_results)
    /\ handlers' = BagRemove(handlers, t)
    /\ UNCHANGED <<ns_vars, serve_vars, proc_vars, task_queue, task_results, task_id_counter, worker_busy,
                   live_stats, lock, pass, post_replied, task_sent, net_vars, worker>>

\* ------------------------------------------------------ try_dispatch_tasks
\* line 95-96: with lock: for task in list(task_queue)
PassBegin(t) ==
    /\ t \in DOMAIN handlers
    /\ t.pc = "dispatch"
    /\ ~lock
    /\ lock' = TRUE
    /\ handlers' = BagRemove(handlers, t)
    /\ pass' = [thread |-> t, pc |-> "loop", queue_copy |-> task_queue, i |-> 1,
                worker_address |-> NoAddress]
    /\ UNCHANGED <<ns_vars, serve_vars, proc_vars, task_queue, task_results, task_id_counter, worker_busy,
                   live_stats, post_replied, get_reply, task_sent, net_vars, worker>>

CurrentTask == pass.queue_copy[pass.i]
NextTask == [pass EXCEPT !.i = @ + 1, !.pc = "loop"]

\* the loop is over: the lock is released and the handler goes on
PassEnd ==
    /\ lock
    /\ pass.pc = "loop"
    /\ pass.i > Len(pass.queue_copy)
    /\ lock' = FALSE
    /\ pass' = NoPass
    /\ handlers' = IF pass.thread.kind = "POST"
                   THEN BagAdd(handlers, [pass.thread EXCEPT !.pc = "reply"])
                   ELSE handlers
    /\ UNCHANGED <<ns_vars, serve_vars, proc_vars, task_queue, task_results, task_id_counter, worker_busy,
                   live_stats, post_replied, get_reply, task_sent, net_vars, worker>>

\* lookup_worker(task.type): the address of the response, or None (error response,
\* or no response within 2 seconds)
LookupWorker(type, answered) ==
    IF answered THEN NsLookup(registry, type, now).address ELSE NoAddress

\* lines 97-102: a done task is dropped; otherwise the worker is looked up, and the
\* task is skipped when there is none or it is busy
PassLookup(answered) ==
    /\ lock
    /\ pass.pc = "loop"
    /\ pass.i <= Len(pass.queue_copy)
    /\ IF task_results[CurrentTask].status = "done"
       THEN /\ task_queue' = SeqRemove(task_queue, CurrentTask)
            /\ pass' = NextTask
       ELSE /\ LET address == LookupWorker(task_results[CurrentTask].type, answered)
               IN IF SkipTask(worker_busy, address)
                  THEN pass' = [pass EXCEPT !.i = @ + 1, !.worker_address = address]
                  ELSE pass' = [pass EXCEPT !.pc = "send", !.worker_address = address]
            /\ UNCHANGED task_queue
    /\ UNCHANGED <<ns_vars, serve_vars, proc_vars, task_results, task_id_counter, worker_busy, live_stats, lock,
                   handlers, post_replied, get_reply, task_sent, net_vars, worker>>

TaskDatagram(task, address) ==
    [task_id |-> task.id, type |-> task.type, payload |-> task.payload, to |-> address]
SendOutcomes == {"sent", "resolve failed", "send failed"}

\* where the pass goes after the try block: on to lines 110-111 when sendto returned,
\* to the next task of the loop when the except branch (lines 113-114) was taken
AfterSend_mark(p, outcome) == [p EXCEPT !.pc = "mark"]
AfterSend_next(p, outcome) == [p EXCEPT !.i = @ + 1, !.pc = "loop"]
AfterSend(p, outcome) ==
    IF outcome = "sent" THEN [p EXCEPT !.pc = "mark"] ELSE [p EXCEPT !.i = @ + 1, !.pc = "loop"]

\* lines 103-109 and 113-114: resolve the host, set assigned_worker, send TASK
PassSend(outcome) ==
    /\ lock
    /\ pass.pc = "send"
    /\ task_results' =
          IF outcome = "resolve failed" THEN task_results
          ELSE [task_results EXCEPT ![CurrentTask].assigned_worker = pass.worker_address]
    /\ IF outcome = "sent"
       THEN /\ task_net' = task_net \cup
                              {TaskDatagram(task_results[CurrentTask], pass.worker_address)}
            /\ task_sent' = Append(task_sent, [task_id |-> CurrentTask,
                                               to |-> pass.worker_address])
       ELSE UNCHANGED <<task_net, task_sent>>
    /\ pass' = AfterSend(pass, outcome)
    /\ UNCHANGED <<ns_vars, serve_vars, proc_vars, task_queue, task_id_counter, worker_busy, live_stats,
                   lock, handlers, post_replied, get_reply, rr_net, dups, worker>>

\* lines 110-111
PassMark ==
    /\ lock
    /\ pass.pc = "mark"
    /\ worker_busy' = BusySet(worker_busy, pass.worker_address, TRUE)
    /\ task_queue' = SeqRemove(task_queue, CurrentTask)
    /\ pass' = NextTask
    /\ UNCHANGED <<ns_vars, serve_vars, proc_vars, task_results, task_id_counter, live_stats, lock, handlers,
                   post_replied, get_reply, task_sent, net_vars, worker>>

\* ----------------------------------------------------------------- Worker
\* WORKER_TYPE = sys.argv[1]: the types the worker on each host may be started with
WorkerTypes(ip) == {"reverse"}
\* the hosts that run a worker next to this Dispatcher
WorkerHosts == {"ip1"}

\* run_worker, line 267: register_with_nameservice (the NameService registers the
\* datagram's source)
WorkerRegister(ip, wtype) ==
    /\ worker[ip].state = "down"
    /\ wtype \in WorkerTypes(ip)
    /\ registry' = NsRegister(registry, RegisterContent(wtype, Address(ip)), ip, now)
    /\ UNCHANGED <<now, ns_reply, ns_request>>
    /\ worker' = [worker EXCEPT ![ip] = [state |-> "registered", type |-> wtype]]
    /\ UNCHANGED <<disp_vars, serve_vars, proc_vars, net_vars>>

\* run_worker, lines 269-276: bind the port, install the signal handlers, start the
\* heartbeat thread
WorkerBind(ip) ==
    /\ worker[ip].state = "registered"
    /\ worker' = [worker EXCEPT ![ip].state = "listening"]
    /\ UNCHANGED <<ns_vars, disp_vars, serve_vars, proc_vars, net_vars>>

\* send_heartbeat: one round of the loop
WorkerHeartbeat(ip) ==
    /\ worker[ip].state = "listening"
    /\ registry' = NsHeartbeat(registry, ip, now)
    /\ UNCHANGED <<now, ns_reply, ns_request>>
    /\ UNCHANGED <<disp_vars, serve_vars, proc_vars, net_vars, worker>>

\* handle_shutdown: DEREGISTER_WORKER, then exit
WorkerShutdown(ip) ==
    /\ worker[ip].state = "listening"
    /\ registry' = NsDeregister(registry, ip)
    /\ UNCHANGED <<now, ns_reply, ns_request>>
    /\ worker' = [worker EXCEPT ![ip] = [state |-> "down", type |-> ""]]
    /\ UNCHANGED <<disp_vars, serve_vars, proc_vars, net_vars>>

\* the worker process is killed (no signal handler runs): nothing is deregistered
WorkerKill(ip) ==
    /\ worker[ip].state # "down"
    /\ worker' = [worker EXCEPT ![ip] = [state |-> "down", type |-> ""]]
    /\ UNCHANGED <<ns_vars, disp_vars, serve_vars, proc_vars, net_vars>>

\* run_worker line 279-282, process_task and send_result
WorkerProcess(ip, m) ==
    /\ worker[ip].state = "listening"
    /\ m \in task_net
    /\ m.to = Address(ip)
    /\ task_net' = task_net \ {m}
    /\ rr_net' = BagAdd(rr_net, [task_id |-> m.task_id, result |-> Handle(m.type, m.payload)])
    /\ UNCHANGED <<ns_vars, disp_vars, serve_vars, proc_vars, dups, worker>>

\* a TASK datagram for a port nobody listens on is lost
TaskLost(m) ==
    /\ m \in task_net
    /\ \A ip \in IPs : m.to = Address(ip) => worker[ip].state # "listening"
    /\ task_net' = task_net \ {m}
    /\ UNCHANGED <<ns_vars, disp_vars, serve_vars, proc_vars, rr_net, dups, worker>>

\* UDP may deliver a datagram twice
Duplicate(m) ==
    /\ m \in DOMAIN rr_net
    /\ dups < MaxDup
    /\ dups' = dups + 1
    /\ rr_net' = BagAdd(rr_net, m)
    /\ UNCHANGED <<ns_vars, disp_vars, serve_vars, proc_vars, task_net, worker>>

Next ==
    \/ \E type \in Types : PostTask(type, <<"a", "b">>)
    \/ \E t \in DOMAIN handlers : PostReply(t)
    \/ \E m \in DOMAIN rr_net : ResultReturn(m)
    \/ \E t \in DOMAIN handlers : ResultClearBusy(t)
    \/ \E t \in DOMAIN handlers : PassBegin(t)
    \/ PassEnd
    \/ \E answered \in BOOLEAN : PassLookup(answered)
    \/ \E outcome \in SendOutcomes : PassSend(outcome)
    \/ PassMark
    \/ \E ip \in WorkerHosts, wtype \in Types : WorkerRegister(ip, wtype)
    \/ \E ip \in WorkerHosts : WorkerBind(ip)
    \/ \E ip \in WorkerHosts : WorkerHeartbeat(ip)
    \/ \E ip \in WorkerHosts : WorkerShutdown(ip)
    \/ \E ip \in WorkerHosts : WorkerKill(ip)
    \/ \E ip \in WorkerHosts : \E m \in task_net : WorkerProcess(ip, m)
    \/ \E m \in task_net : TaskLost(m)
    \/ \E m \in DOMAIN rr_net : Duplicate(m)

Spec == Init /\ [][Next]_vars

\* ------------------------------------------------- round trip with a live worker
\* The worker on ip1 has registered as "reverse" and listens; it keeps running, every
\* lookup is answered and every datagram arrives once. Clients post tasks and poll.
RoundTripInit ==
    /\ ServeInit
    /\ ProcInit
    /\ registry = NsRegister({}, RegisterContent("reverse", Address("ip1")), "ip1", 0)
    /\ now = 0
    /\ ns_reply = NoReply
    /\ ns_request = NoRequest
    /\ task_queue = <<>>
    /\ task_results = <<>>
    /\ task_id_counter = 1
    /\ worker_busy = <<>>
    /\ live_stats = [total_tasks |-> 0, completed_tasks |-> 0, open_tasks |-> 0,
                     avg_completion_time |-> 0, avg_completion_by_worker |-> <<>>]
    /\ lock = FALSE
    /\ handlers = <<>>
    /\ pass = NoPass
    /\ post_replied = <<>>
    /\ task_sent = <<>>
    /\ task_net = {}
    /\ rr_net = <<>>
    /\ dups = 0
    /\ worker = [ip \in IPs |-> IF ip = "ip1" THEN [state |-> "listening", type |-> "reverse"]
                                             ELSE [state |-> "down", type |-> ""]]
    /\ get_reply = [task_id |-> 0, kind |-> "none", result |-> None]

RoundTripNext ==
    \/ \E payload \in Payloads : PostTask("reverse", payload)
    \/ \E t \in DOMAIN handlers : PostReply(t)
    \/ \E m \in DOMAIN rr_net : ResultReturn(m)
    \/ \E t \in DOMAIN handlers : ResultClearBusy(t)
    \/ \E t \in DOMAIN handlers : PassBegin(t)
    \/ PassEnd
    \/ PassLookup(TRUE)
    \/ PassSend("sent")
    \/ PassMark
    \/ WorkerHeartbeat("ip1")
    \/ \E m \in task_net : WorkerProcess("ip1", m)
    \/ \E id \in 1..MaxTasks : GetResult(id)
    \/ \E t \in DOMAIN handlers : GetAnswer(t)

\* Every started thread keeps running, a thread waiting for the mutex gets it, the
\* worker handles the datagrams it received, and the client keeps polling each id.
RoundTripFairness ==
    /\ \A id \in 1..MaxTasks :
          /\ WF_vars(PostReply(Thread("POST", "reply", id, TRUE)))
          /\ WF_vars(ResultClearBusy(Thread("RESULT", "clear", id, TRUE)))
          /\ SF_vars(PassBegin(Thread("POST", "dispatch", id, TRUE)))
          /\ SF_vars(PassBegin(Thread("RESULT", "dispatch", id, TRUE)))
          /\ \A found \in BOOLEAN : WF_vars(GetAnswer(Thread("GET", "answer", id, found)))
    /\ WF_vars(PassEnd)
    /\ WF_vars(PassLookup(TRUE))
    /\ WF_vars(PassSend("sent"))
    /\ WF_vars(PassMark)
    /\ SF_vars(\E m \in DOMAIN rr_net : ResultReturn(m))
    /\ WF_vars(\E m \in task_net : WorkerProcess("ip1", m))
    /\ \A id \in 1..MaxTasks : SF_vars(GetResult(id))

SpecRoundTrip == RoundTripInit /\ [][RoundTripNext]_vars /\ RoundTripFairness

\* ------------------------------------------------------------------ claims
\* the POST_TASK handler threads alive
PostThreads ==
    {t \in DOMAIN handlers : t.kind = "POST"}
        \cup (IF pass.thread.kind = "POST" THEN {pass.thread} ELSE {})
\* the number of POST_TASK handler threads alive
PostCount ==
    SumOver(PostThreads, [t \in PostThreads |->
                (IF t \in DOMAIN handlers THEN handlers[t] ELSE 0)
                    + (IF pass.thread = t THEN 1 ELSE 0)])
Quiescent == Running = 0
\* the TASK datagram sent by this step, if any
TaskSentNow == Len(task_sent') = Len(task_sent) + 1
LastSent == task_sent'[Len(task_sent')]
\* this step starts the handler of a RESULT_RETURN for task id
ResultReturnStep(id) ==
    /\ BagSize(rr_net') = BagSize(rr_net) - 1
    /\ \E t \in DOMAIN handlers' :
          /\ t.kind = "RESULT" /\ t.pc = "clear" /\ t.task_id = id
          /\ handlers' = BagAdd(handlers, t)

\* C1: the ids given to accepted tasks are pairwise different and never reused:
\* two POST_TASK handlers never hold the same id, no id is reported in two
\* responses, a handler never holds an id that was already reported, and every id
\* handed out is below the counter.
C1_UniqueIds ==
    /\ \A g, h \in PostThreads : g # h => g.task_id # h.task_id
    /\ PostCount = Cardinality(PostThreads)
    /\ \A id \in DOMAIN post_replied : post_replied[id] <= 1
    /\ \A h \in PostThreads : h.task_id \notin DOMAIN post_replied
    /\ \A h \in PostThreads : h.task_id < task_id_counter
    /\ \A id \in DOMAIN post_replied \cup DOMAIN task_results : id < task_id_counter

\* two POST_TASK handlers run at the same time
C1_Witness == PostCount = 2

\* C2: a RESULT_RETURN for a task that is already done leaves the statistics
\* unchanged.
C2_AtMostOnce ==
    [][\A id \in DOMAIN task_results :
          task_results[id].status = "done" /\ ResultReturnStep(id)
              => live_stats' = live_stats]_vars

\* C3: no TASK datagram is sent to an endpoint while the busy table marks it busy.
C3_BusyExclusion ==
    [][TaskSentNow => ~BusyGet(worker_busy, LastSent.to)]_vars

\* a pass has just skipped a queued task because the endpoint found for it is busy
C3_Witness ==
    /\ lock
    /\ pass.pc = "loop"
    /\ pass.i > 1
    /\ pass.worker_address # NoAddress
    /\ BusyGet(worker_busy, pass.worker_address)
    /\ pass.queue_copy[pass.i - 1] \in Range(task_queue)
    /\ task_results[pass.queue_copy[pass.i - 1]].assigned_worker = NoAddress

\* C4: of two tasks of one type, the one with the smaller id is sent first: when a
\* TASK datagram has been sent, every older task of its type was sent before it.
C4_Fifo ==
    \A q \in DOMAIN task_sent : \A a \in DOMAIN task_results :
        (/\ a < task_sent[q].task_id
         /\ task_results[a].type = task_results[task_sent[q].task_id].type)
            => \E p \in 1..(q - 1) : task_sent[p].task_id = a

\* C7: when the lookup for a queued task's type yields no address, the pass leaves
\* the task queued and pending, sends nothing and goes on; the POST_TASK handler ends
\* only by sending its response, and every id reported is in the task table.
C7_IntakeWithoutWorker ==
    [][/\ (/\ lock
           /\ pass.pc = "loop"
           /\ pass.i <= Len(pass.queue_copy)
           /\ task_results[pass.queue_copy[pass.i]].status = "pending"
           /\ pass' # pass
           /\ pass'.worker_address = NoAddress)
              => /\ pass'.pc = "loop"
                 /\ lock'
                 /\ pass'.i = pass.i + 1
                 /\ task_sent' = task_sent
                 /\ CurrentTask \in Range(task_queue')
                 /\ task_results'[CurrentTask].status = "pending"
       /\ \A t \in PostThreads :
            (\A u \in PostThreads' : u.task_id # t.task_id)
                => /\ t.task_id \in DOMAIN post_replied'
                   /\ post_replied'[t.task_id] = 1
                   /\ t.task_id \in DOMAIN task_results']_vars

\* the response for a task was sent while the task was never handed to a worker:
\* it is still queued and pending
C7_Witness ==
    \E id \in DOMAIN post_replied :
        /\ post_replied[id] = 1
        /\ id \in Range(task_queue)
        /\ task_results[id].status = "pending"
        /\ task_results[id].assigned_worker = NoAddress
        /\ \A q \in DOMAIN task_sent : task_sent[q].task_id # id
        /\ registry = {}

\* C8: the response to LOOKUP_WORKER carries an address exactly when the registry
\* has an entry of that type seen at most HEARTBEAT_TIMEOUT ago, and then that
\* entry's address; LIST_WORKERS lists exactly the entries seen at most
\* HEARTBEAT_TIMEOUT ago.
C8_Expiry ==
    [][(now' = now /\ registry' = registry) =>
         /\ ns_reply'.op = "LOOKUP_WORKER" =>
              /\ ns_reply'.kind = "address" <=>
                    \E e \in registry : /\ e.type = ns_reply'.type
                                        /\ now - e.last_seen <= 30
              /\ ns_reply'.kind = "address" =>
                    \E e \in registry : /\ e.type = ns_reply'.type
                                        /\ e.address = ns_reply'.address
              /\ ns_reply'.kind # "address" => ns_reply'.kind = "error"
         /\ ns_reply'.op = "LIST_WORKERS" =>
              \A e \in registry :
                  [type |-> e.type, address |-> e.address] \in ns_reply'.workers
                      <=> now - e.last_seen <= 30]_vars

\* a lookup was answered with an error although the registry still holds an entry
\* of the type: the entry was last seen more than 30 seconds ago
C8_Witness ==
    /\ ns_reply.op = "LOOKUP_WORKER"
    /\ ns_reply.kind = "error"
    /\ \E e \in registry : e.type = ns_reply.type /\ now - e.last_seen = 31

\* C9: with no handler running, open_tasks + completed_tasks = total_tasks (there is
\* no failed counter).
C9_StatsSum ==
    Quiescent =>
        live_stats.open_tasks + live_stats.completed_tasks = live_stats.total_tasks

\* no handler runs, and a duplicated RESULT_RETURN has been counted
C9_Witness ==
    /\ Quiescent
    /\ live_stats.total_tasks = 2
    /\ live_stats.completed_tasks > Cardinality(DoneIds(task_results))

\* C10: the registry never holds two entries of one type, and a REGISTER_WORKER
\* leaves, for its type, the entry with the sender's address and last_seen = now.
C10_OneEntryPerType ==
    [][/\ \A e1, e2 \in registry' : e1.type = e2.type => e1 = e2
       /\ (ns_reply'.op = "REGISTER_WORKER" /\ now' = now) =>
             \E e \in registry' : /\ e.type = ns_reply'.type
                                  /\ e.address = ns_reply'.address
                                  /\ e.last_seen = now]_vars

\* a type is registered again later, from the other host, next to an older entry
C10_Witness ==
    /\ ns_reply.op = "REGISTER_WORKER"
    /\ ns_reply.address = Address("ip2")
    /\ \E e \in registry : /\ e.type = ns_reply.type
                           /\ e.address = Address("ip2")
                           /\ e.last_seen = now
    /\ \E e \in registry : e.address = Address("ip1") /\ e.last_seen < now

\* C5: with a live worker for its type, every accepted task is sent to the worker,
\* its result is stored, and a GET_RESULT for it is eventually answered with
\* {result}.
C5_RoundTrip ==
    \A id \in 1..MaxTasks :
        (id \in DOMAIN task_results)
            ~> (/\ \E q \in DOMAIN task_sent : task_sent[q].task_id = id
                /\ task_results[id].status = "done"
                /\ get_reply.task_id = id
                /\ get_reply.kind = "result")

\* The same for the tasks whose handler output is not empty.
RoundTripNonEmpty ==
    \A id \in 1..MaxTasks :
        (id \in DOMAIN task_results /\ task_results[id].payload # <<>>)
            ~> (/\ \E q \in DOMAIN task_sent : task_sent[q].task_id = id
                /\ task_results[id].status = "done"
                /\ get_reply.task_id = id
                /\ get_reply.kind = "result")

\* nothing is left that could start a dispatch pass: no handler runs and no datagram
\* is on its way to the worker or back
AtRest ==
    /\ Quiescent
    /\ task_net = {}
    /\ rr_net = <<>>

\* C6: a queued task is dispatched once a worker of its type has registered, without
\* a further POST_TASK or RESULT_RETURN: when the Dispatcher is at rest and a worker
\* of the type is registered, live, listening and not busy, no task of that type is
\* still waiting in the queue.
C6_QueuedUntilWorker ==
    \A id \in Range(task_queue) : \A ip \in IPs :
        (/\ AtRest
         /\ worker[ip].state = "listening"
         /\ NsLookup(registry, task_results[id].type, now).address = Address(ip)
         /\ ~BusyGet(worker_busy, Address(ip)))
            => task_results[id].status # "pending"

\* ------------------------------------------------- NameService frame claims
\* the entries of reg as {type, address}
RegKeys(reg) == {[type |-> e.type, address |-> e.address] : e \in reg}

\* C11: the registry after a REGISTER_WORKER is the old registry without the entry
\* of the type, plus the entry {type, <source ip>:6000, now}: it depends on the
\* datagram's source and type only, never on the "address" field of its content.
C11_SourceAddress ==
    [][(ns_request'.op = "REGISTER_WORKER" /\ now' = now) =>
          registry' = {e \in registry : e.type # ns_request'.type}
                         \cup {[type |-> ns_request'.type,
                                address |-> [host |-> ns_request'.src, port |-> 6000],
                                last_seen |-> now]}]_vars

\* a REGISTER_WORKER whose content names another host's address was handled, and
\* the entry carries the source's address
C11_Witness ==
    /\ ns_request.op = "REGISTER_WORKER"
    /\ ns_request.src = "ip1"
    /\ ns_request.address = Address("ip2")
    /\ \E e \in registry : e.type = ns_request.type /\ e.address = Address("ip1")

\* C18: a HEARTBEAT from source s keeps the entries' types and addresses, sets
\* last_seen = now on every entry whose address is s:6000, leaves the last_seen of
\* every other entry, and reports the number of entries it refreshed.
C18_HeartbeatFrame ==
    [][(ns_request'.op = "HEARTBEAT" /\ now' = now) =>
          /\ RegKeys(registry') = RegKeys(registry)
          /\ Cardinality(registry') = Cardinality(registry)
          /\ \A e \in registry : \E f \in registry' :
                /\ f.type = e.type
                /\ f.address = e.address
                /\ f.last_seen = IF e.address = [host |-> ns_request'.src, port |-> 6000]
                                 THEN now ELSE e.last_seen
          /\ ns_reply'.n = Cardinality({e \in registry :
                                  e.address = [host |-> ns_request'.src, port |-> 6000]})]_vars

\* a heartbeat from ip1 refreshed ip1's remaining entry and left alone the older
\* entry with which ip2 replaced ip1's other registration
C18_Witness ==
    /\ ns_request.op = "HEARTBEAT"
    /\ ns_request.src = "ip1"
    /\ ns_reply.n = 1
    /\ \E e \in registry : e.address = Address("ip1") /\ e.last_seen = now
    /\ \E e \in registry : e.address = Address("ip2") /\ e.last_seen < now

\* C19: a DEREGISTER_WORKER from source s removes exactly the entries whose address
\* is s:6000 and reports their number; an entry of a type appears in the registry
\* only by a REGISTER_WORKER of that type, and a LOOKUP_WORKER of a type without an
\* entry is answered with an error.
C19_DeregisterFrame ==
    [][/\ (ns_request'.op = "DEREGISTER_WORKER" /\ now' = now) =>
             /\ registry' = {e \in registry :
                                e.address # [host |-> ns_request'.src, port |-> 6000]}
             /\ ns_reply'.n = Cardinality(registry) - Cardinality(registry')
       /\ \A wtype \in Types :
             (~RegHas(registry, wtype) /\ RegHas(registry', wtype)) =>
                 (ns_request'.op = "REGISTER_WORKER" /\ ns_request'.type = wtype)
       /\ (ns_request'.op = "LOOKUP_WORKER" /\ now' = now
              /\ ~RegHas(registry, ns_request'.type)) => ns_reply'.kind = "error"]_vars

\* a DEREGISTER_WORKER from ip1 removed ip1's one entry and left ip2's entry
C19_Witness ==
    /\ ns_request.op = "DEREGISTER_WORKER"
    /\ ns_request.src = "ip1"
    /\ ns_reply.n = 1
    /\ \E e \in registry : e.address = Address("ip2")
    /\ \A e \in registry : e.address # Address("ip1")

\* ------------------------------------------- NameService restart with a worker
\* the NameService process starts again: registry = {} (nameservice.py line 14)
NsRestart ==
    /\ registry' = {}
    /\ ns_reply' = NoReply
    /\ ns_request' = NoRequest
    /\ UNCHANGED <<now, disp_vars, serve_vars, proc_vars, net_vars, worker>>

\* run_worker, line 267: the REGISTER_WORKER datagram is handled by the NameService
RestartWorkerRegister(ip, wtype) ==
    /\ worker[ip].state = "down"
    /\ wtype \in WorkerTypes(ip)
    /\ HandleRegister(wtype, ip, Address(ip))
    /\ worker' = [worker EXCEPT ![ip] = [state |-> "registered", type |-> wtype]]
    /\ UNCHANGED <<disp_vars, serve_vars, proc_vars, net_vars>>

\* send_heartbeat: one HEARTBEAT datagram is handled by the NameService
RestartWorkerHeartbeat(ip) ==
    /\ worker[ip].state = "listening"
    /\ HandleHeartbeat(ip)
    /\ UNCHANGED <<disp_vars, serve_vars, proc_vars, net_vars, worker>>

\* handle_shutdown: the DEREGISTER_WORKER datagram is handled by the NameService
RestartWorkerShutdown(ip) ==
    /\ worker[ip].state = "listening"
    /\ HandleDeregister(ip)
    /\ worker' = [worker EXCEPT ![ip] = [state |-> "down", type |-> ""]]
    /\ UNCHANGED <<disp_vars, serve_vars, proc_vars, net_vars>>

\* The NameService and the workers, the NameService restarting at any time
RestartNext ==
    \/ \E ip \in WorkerHosts, wtype \in Types : RestartWorkerRegister(ip, wtype)
    \/ \E ip \in WorkerHosts : WorkerBind(ip)
    \/ \E ip \in WorkerHosts : RestartWorkerHeartbeat(ip)
    \/ \E ip \in WorkerHosts : RestartWorkerShutdown(ip)
    \/ \E ip \in WorkerHosts : WorkerKill(ip)
    \/ \E wtype \in Types : HandleLookup(wtype) /\ UNCHANGED <<disp_vars, serve_vars, proc_vars, net_vars, worker>>
    \/ \E d \in NsTickSteps : Advance(d) /\ UNCHANGED <<disp_vars, serve_vars, proc_vars, net_vars, worker>>
    \/ NsRestart

SpecRestart == Init /\ [][RestartNext]_vars

\* C20: a running worker's periodic message re-creates its entry: after a HEARTBEAT
\* of a listening worker has been handled, a LOOKUP_WORKER for the worker's type is
\* answered with an address.
C20_RecoverAfterRestart ==
    [][\A ip \in IPs :
          (/\ ns_request'.op = "HEARTBEAT"
           /\ ns_request'.src = ip
           /\ now' = now
           /\ worker' = worker
           /\ worker[ip].state = "listening")
              => NsLookup(registry', worker[ip].type, now).kind = "address"]_vars

\* ------------------------------------------------------ GET_RESULT claims
\* this step is the response of the GET_RESULT handler thread t
GetAnswerStep(t) ==
    /\ t \in DOMAIN handlers
    /\ t.kind = "GET"
    /\ handlers' = BagRemove(handlers, t)
\* this step starts the GET_RESULT handler thread t
GetStartStep(t) ==
    /\ t.kind = "GET"
    /\ handlers' = BagAdd(handlers, t)

C13_StoredResultReturned ==
    [][\A t \in DOMAIN handlers :
          (/\ GetAnswerStep(t)
           /\ t.found
           /\ task_results[t.task_id].status = "done")
              => /\ get_reply'.kind = "result"
                 /\ get_reply'.result = task_results[t.task_id].result]_vars

\* C14: every id reported in a 'Task received' response is in the task table; a
\* GET_RESULT handler started after that response finds the task, and a handler that
\* found the task never answers 'Task not found'.
C14_ReplyThenGet ==
    [][/\ \A id \in DOMAIN post_replied : id \in DOMAIN task_results
       /\ \A t \in DOMAIN handlers' :
             (GetStartStep(t) /\ t.task_id \in DOMAIN post_replied) => t.found
       /\ \A t \in DOMAIN handlers :
             (GetAnswerStep(t) /\ t.found) => get_reply'.kind # "Task not found"]_vars

\* a GET_RESULT for a task whose 'Task received' response was sent is answered while
\* the task is still pending
C14_Witness ==
    /\ get_reply.task_id \in DOMAIN post_replied
    /\ get_reply.kind = "Result not ready"
    /\ task_results[get_reply.task_id].status = "pending"

\* ------------------------------------------- results arriving at the Dispatcher
\* payloads of the posted tasks: a string and a number
ResultPayloads == {<<"a", "b">>, NotAString}
\* the result carried by a RESULT_RETURN that does not come from the task's worker
ForeignResults == {<<"x">>}

\* dispatcher_loop: a RESULT_RETURN datagram {task_id, result} from any sender is
\* received (the source of the datagram is not looked at)
ResultArrives(id, r) ==
    /\ dups < MaxDup
    /\ dups' = dups + 1
    /\ rr_net' = BagAdd(rr_net, [task_id |-> id, result |-> r])
    /\ UNCHANGED <<ns_vars, disp_vars, serve_vars, proc_vars, task_net, worker>>

\* The Dispatcher with a live reverse worker; tasks with string and number payloads
\* are posted, and a RESULT_RETURN may also arrive from elsewhere.
ResultsNext ==
    \/ \E payload \in ResultPayloads : PostTask("reverse", payload)
    \/ \E t \in DOMAIN handlers : PostReply(t)
    \/ \E m \in DOMAIN rr_net : ResultReturn(m)
    \/ \E t \in DOMAIN handlers : ResultClearBusy(t)
    \/ \E t \in DOMAIN handlers : PassBegin(t)
    \/ PassEnd
    \/ PassLookup(TRUE)
    \/ \E outcome \in {"sent", "send failed"} : PassSend(outcome)
    \/ PassMark
    \/ \E m \in task_net : WorkerProcess("ip1", m)
    \/ \E id \in 1..MaxTasks, r \in ForeignResults : ResultArrives(id, r)

SpecResults == RoundTripInit /\ [][ResultsNext]_vars

\* C15: once a task's result, status and timestamp_completed are stored (the task has
\* left pending), no step changes any of them.
C15_ResultSetOnce ==
    [][\A id \in DOMAIN task_results :
          task_results[id].status # "pending" =>
              /\ task_results'[id].result = task_results[id].result
              /\ task_results'[id].status = task_results[id].status
              /\ task_results'[id].timestamp_completed
                    = task_results[id].timestamp_completed]_vars

\* the result string of a handler that raised
IsErrorResult(r) == r \in {ErrorResult, PayloadErrorResult}

\* C16: a task that has left pending is failed exactly when its result is the
\* 'Error processing task: ...' string of a handler that raised, and done otherwise.
C16_FailedStatus ==
    \A id \in DOMAIN task_results :
        task_results[id].status # "pending" =>
            /\ IsErrorResult(task_results[id].result) => task_results[id].status = "failed"
            /\ ~IsErrorResult(task_results[id].result) => task_results[id].status = "done"

\* C17: a task's assigned_worker is set exactly when a TASK datagram for it was sent
\* and its result is not stored yet.
C17_AssignedWorker ==
    \A id \in DOMAIN task_results :
        task_results[id].assigned_worker # NoAddress
            <=> (/\ \E q \in DOMAIN task_sent : task_sent[q].task_id = id
                 /\ task_results[id].status = "pending")

\* ------------------------------------------------- the worker process, step by step
\* register_with_nameservice(max_attempts=10, delay=1)
max_attempts == 10

\* a datagram the worker process sends or receives
Datagram(op, task_id, result) == [op |-> op, task_id |-> task_id, result |-> result]
\* the number of datagrams with this opcode in a bag of datagrams
CountOp(bag, op) ==
    LET S == {d \in DOMAIN bag : d.op = op}
    IN SumOver(S, [d \in S |-> bag[d]])

\* line 120: for attempt in range(1, max_attempts + 1)
MoreAttempts_eleven(n) == n < max_attempts + 1
MoreAttempts(n) == n < max_attempts

\* what one round of the loop can meet: a reply within 1 s (line 125-128: return),
\* no reply (socket.timeout), or sendto raising; both exceptions end at line 129-131
AttemptOutcomes == {"reply", "timeout", "send failed"}

\* register_with_nameservice, lines 120-131: one round of the loop
RegisterAttempt(outcome) ==
    /\ main = "register"
    /\ MoreAttempts(attempt)
    /\ attempt' = attempt + 1
    /\ sent' = IF outcome = "send failed" THEN sent
               ELSE BagAdd(sent, Datagram("REGISTER_WORKER", 0, None))
    /\ received' = IF outcome = "reply" THEN BagAdd(received, Datagram("RESPONSE", 0, None))
                   ELSE received
    /\ main' = IF outcome = "reply" THEN "bind" ELSE "register"
    /\ UNCHANGED <<ns_vars, disp_vars, net_vars, worker, serve_vars, exit_status,
                   task_threads>>

\* register_with_nameservice, lines 133-134: the loop is over, sys.exit(1)
RegisterExit ==
    /\ main = "register"
    /\ ~MoreAttempts(attempt)
    /\ main' = "exited"
    /\ exit_status' = 1
    /\ UNCHANGED <<ns_vars, disp_vars, net_vars, worker, serve_vars, attempt,
                   task_threads, received, sent>>

\* run_worker, lines 269-276: bind the port, install the signal handlers, start the
\* heartbeat thread
RunBind ==
    /\ main = "bind"
    /\ main' = "listen"
    /\ UNCHANGED <<ns_vars, disp_vars, net_vars, worker, serve_vars, attempt,
                   exit_status, task_threads, received, sent>>

\* send_heartbeat, lines 173-179: one round of the loop of the daemon thread, which
\* runs until the process ends
SendHeartbeat ==
    /\ main \in {"listen", "exiting"}
    /\ CountOp(sent, "HEARTBEAT") < MaxBeats
    /\ sent' = BagAdd(sent, Datagram("HEARTBEAT", 0, None))
    /\ UNCHANGED <<ns_vars, disp_vars, net_vars, worker, serve_vars, main, attempt,
                   exit_status, task_threads, received>>

\* the content of a TASK datagram (task.__dict__): the fields process_task uses
TaskData(id, type, payload) == [task_id |-> id, type |-> type, payload |-> payload]
\* task types the worker may be sent: one it has a handler for, one it has not
TaskTypesSent == {"reverse", "nosuch"}
\* payloads it may be sent: a string, and a number (the handler raises)
TaskPayloadsSent == {<<"a", "b">>, NotAString}

\* run_worker, lines 279-282: a TASK datagram is received and a thread is started
ReceiveTask(task) ==
    /\ main = "listen"
    /\ CountOp(received, "TASK") < MaxReceived
    /\ received' = BagAdd(received, Datagram("TASK", task.task_id, None))
    /\ task_threads' = BagAdd(task_threads, task)
    /\ UNCHANGED <<ns_vars, disp_vars, net_vars, worker, serve_vars, main, attempt,
                   exit_status, sent>>

\* send_result(task.id, result), line 249
SendResult_valid(bag, task) ==
    IF task.type \in ALLOWED_TASK_TYPES
    THEN BagAdd(bag, Datagram("RESULT_RETURN", task.task_id, Handle(task.type, task.payload)))
    ELSE bag
SendResult(bag, task) ==
    BagAdd(bag, Datagram("RESULT_RETURN", task.task_id, Handle(task.type, task.payload)))

\* process_task, lines 234-249: the thread runs the handler, sends the result and
\* ends; the threads are not daemon threads, so they also run while the process exits
ProcessTask(task) ==
    /\ task \in DOMAIN task_threads
    /\ main # "exited"
    /\ task_threads' = BagRemove(task_threads, task)
    /\ sent' = SendResult(sent, task)
    /\ UNCHANGED <<ns_vars, disp_vars, net_vars, worker, serve_vars, main, attempt,
                   exit_status, received>>

\* handle_shutdown, lines 191-193, run by the main thread when SIGINT or SIGTERM
\* arrives: deregister_with_nameservice(), then sys.exit(0)
HandleShutdown ==
    /\ main = "listen"
    /\ sent' = BagAdd(sent, Datagram("DEREGISTER_WORKER", 0, None))
    /\ main' = "exiting"
    /\ UNCHANGED <<ns_vars, disp_vars, net_vars, worker, serve_vars, attempt,
                   exit_status, task_threads, received>>

\* the interpreter ends once the main thread has left and no process_task thread runs
ProcessExit ==
    /\ main = "exiting"
    /\ task_threads = <<>>
    /\ main' = "exited"
    /\ exit_status' = 0
    /\ UNCHANGED <<ns_vars, disp_vars, net_vars, worker, serve_vars, attempt,
                   task_threads, received, sent>>

\* One worker process from its start to its exit, sent arbitrary TASK datagrams
WorkerNext ==
    \/ \E outcome \in AttemptOutcomes : RegisterAttempt(outcome)
    \/ RegisterExit
    \/ RunBind
    \/ SendHeartbeat
    \/ \E id \in 1..MaxTasks, type \in TaskTypesSent, payload \in TaskPayloadsSent :
          ReceiveTask(TaskData(id, type, payload))
    \/ \E task \in DOMAIN task_threads : ProcessTask(task)
    \/ HandleShutdown
    \/ ProcessExit

SpecWorker == Init /\ [][WorkerNext]_vars

\* C21: the worker sends REGISTER_WORKER at most 10 times; it leaves the
\* registration (binds, listens, heartbeats, receives tasks) only after a reply was
\* received; and when all 10 attempts failed it exits with status 1, having bound
\* nothing and sent no heartbeat.
C21_RegisterAttempts ==
    /\ attempt <= max_attempts
    /\ CountOp(sent, "REGISTER_WORKER") <= 10
    /\ (\/ main \in {"bind", "listen", "exiting"}
        \/ CountOp(sent, "HEARTBEAT") > 0
        \/ CountOp(received, "TASK") > 0
        \/ exit_status = 0)
          => CountOp(received, "RESPONSE") = 1
    /\ (attempt = 10 /\ CountOp(received, "RESPONSE") = 0)
          => /\ main \in {"register", "exited"}
             /\ CountOp(sent, "HEARTBEAT") = 0
             /\ CountOp(received, "TASK") = 0
    /\ exit_status = 1
          <=> (main = "exited" /\ attempt = 10 /\ CountOp(received, "RESPONSE") = 0)

\* the tenth attempt failed and the worker has exited with status 1
C21_Witness ==
    /\ exit_status = 1
    /\ attempt = 10
    /\ CountOp(sent, "REGISTER_WORKER") = 10

\* the number of datagrams with this opcode and task id in a bag of datagrams
CountFor(bag, op, id) ==
    LET S == {d \in DOMAIN bag : d.op = op /\ d.task_id = id}
    IN SumOver(S, [d \in S |-> bag[d]])
\* the number of process_task threads running for this task id
ThreadsFor(id) ==
    LET S == {task \in DOMAIN task_threads : task.task_id = id}
    IN SumOver(S, [task \in S |-> task_threads[task]])

C23_DeregisterAfterHandler ==
    [][/\ \A id \in 1..MaxTasks :
            ThreadsFor(id)' < ThreadsFor(id)
                => CountFor(sent', "RESULT_RETURN", id)
                      = CountFor(sent, "RESULT_RETURN", id) + 1
       /\ CountOp(sent', "DEREGISTER_WORKER") > CountOp(sent, "DEREGISTER_WORKER")
            => task_threads = <<>>]_vars

\* the in-flight task is not aborted: a process_task thread ends only by sending its
\* RESULT_RETURN, also after the signal, and the process exits only when none runs
InFlightNotAborted ==
    [][/\ \A id \in 1..MaxTasks :
            ThreadsFor(id)' < ThreadsFor(id)
                => CountFor(sent', "RESULT_RETURN", id)
                      = CountFor(sent, "RESULT_RETURN", id) + 1
       /\ main' = "exited" => task_threads' = <<>>]_vars

\* This step is taken by a thread that holds the mutex: the thread inside
\* try_dispatch_tasks (lock is set and the step is the pass's own), or a handler that
\* takes the free mutex and runs its whole `with lock:` block (a thread starts)
HoldsMutex ==
    \/ lock /\ pass' # pass /\ (handlers' = handlers \/ ~lock')
    \/ ~lock /\ ~lock' /\ BagSize(handlers') = BagSize(handlers) + 1

\* C24: every write of the task queue, the task table, the id counter, the busy table
\* and the statistics is made by a thread holding the mutex.
C24_UnderMutex ==
    [][<<task_queue, task_results, task_id_counter, worker_busy, live_stats>>'
           # <<task_queue, task_results, task_id_counter, worker_busy, live_stats>>
          => HoldsMutex]_vars

\* ------------------------------------------- GET_STATS and GET_ALL_TASKS
RECURSIVE IdsInOrder(_)
\* task_results.values() restricted to the ids in S: the dict keeps insertion order,
\* which is the order of the ids
IdsInOrder(S) ==
    IF S = {} THEN <<>>
    ELSE LET m == CHOOSE x \in S : \A y \in S : x <= y
         IN <<m>> \o IdsInOrder(S \ {m})

\* lst[:10]
FirstTen(lst) == SubSeq(lst, 1, IF Len(lst) < 10 THEN Len(lst) ELSE 10)

\* A GET_STATS or GET_ALL_TASKS handler thread after its `with lock:` block: its
\* locals hold the Task objects' __dict__ (references to the live objects, here
\* their ids) and the statistics it copied or counted
StatsThread(kind, tasks, stats) ==
    [kind |-> kind, pc |-> "answer", task_id |-> 0, found |-> FALSE,
     tasks |-> tasks, stats |-> stats]

\* handle_get_stats, lines 357-363
GetStats ==
    /\ CanStart
    /\ ~lock
    /\ handlers' = BagAdd(handlers,
          StatsThread("GET_STATS",
                      FirstTen(IdsInOrder({i \in DOMAIN task_results :
                                              task_results[i].status = "pending"})),
                      live_stats))
    /\ UNCHANGED <<ns_vars, serve_vars, proc_vars, task_queue, task_results,
                   task_id_counter, worker_busy, live_stats, lock, pass, post_replied,
                   get_reply, task_sent, net_vars, worker>>

\* lines 322-328: the exact quotient sum/len as the pair (sum, len), or no average;
\* a timestamp of 0 is falsy and its task is left out
CompletionTimes(results) ==
    {i \in DOMAIN results : /\ results[i].status = "done"
                            /\ results[i].timestamp_completed # 0
                            /\ results[i].timestamp_created # 0}
AllTasksStats(results) ==
    [total |-> Cardinality(DOMAIN results),
     done |-> Cardinality({i \in DOMAIN results : results[i].status = "done"}),
     pending |-> Cardinality({i \in DOMAIN results : results[i].status = "pending"}),
     avg_completion_time |->
        [sum |-> SumOver(CompletionTimes(results),
                         [i \in DOMAIN results |-> Duration(results[i])]),
         len |-> Cardinality(CompletionTimes(results))]]

\* handle_get_all_tasks, lines 316-335
GetAllTasks ==
    /\ CanStart
    /\ ~lock
    /\ handlers' = BagAdd(handlers,
          StatsThread("GET_ALL_TASKS", IdsInOrder(DOMAIN task_results),
                      AllTasksStats(task_results)))
    /\ UNCHANGED <<ns_vars, serve_vars, proc_vars, task_queue, task_results,
                   task_id_counter, worker_busy, live_stats, lock, pass, post_replied,
                   get_reply, task_sent, net_vars, worker>>

\* encode_message serializes the dicts as they are when it runs
Serialize(tasks, results) == [i \in DOMAIN tasks |-> results[tasks[i]]]

\* handle_get_stats line 365 and handle_get_all_tasks line 337: the response is
\* encoded and sent outside the lock
StatsAnswer(t) ==
    /\ t \in DOMAIN handlers
    /\ t.kind \in {"GET_STATS", "GET_ALL_TASKS"}
    /\ t.pc = "answer"
    /\ stats_reply' = [kind |-> t.kind, stats |-> t.stats,
                       tasks |-> Serialize(t.tasks, task_results)]
    /\ handlers' = BagRemove(handlers, t)
    /\ UNCHANGED <<ns_vars, lookup, disp_reply, proc_vars, task_queue, task_results,
                   task_id_counter, worker_busy, live_stats, lock, pass, post_replied,
                   get_reply, task_sent, net_vars, worker>>

\* The Dispatcher with a live reverse worker, clients posting tasks and a monitor
\* asking for statistics
StatsNext ==
    \/ PostTask("reverse", <<"a", "b">>)
    \/ \E t \in DOMAIN handlers : PostReply(t)
    \/ \E m \in DOMAIN rr_net : ResultReturn(m)
    \/ \E t \in DOMAIN handlers : ResultClearBusy(t)
    \/ \E t \in DOMAIN handlers : PassBegin(t)
    \/ PassEnd
    \/ PassLookup(TRUE)
    \/ PassSend("sent")
    \/ PassMark
    \/ \E m \in task_net : WorkerProcess("ip1", m)
    \/ GetStats
    \/ GetAllTasks
    \/ \E t \in DOMAIN handlers : StatsAnswer(t)

SpecStats == RoundTripInit /\ [][StatsNext]_vars

\* the tasks of a reply that have this status
WithStatus(reply, status) ==
    Cardinality({i \in DOMAIN reply.tasks : reply.tasks[i].status = status})

\* C25: the reply to GET_STATS / GET_ALL_TASKS is a snapshot of one moment: every
\* task listed under "pending" in a GET_STATS reply has status pending in that reply,
\* and the counters of a GET_ALL_TASKS reply count the tasks it lists.
C25_FrozenSnapshot ==
    /\ stats_reply.kind = "GET_STATS"
          => \A i \in DOMAIN stats_reply.tasks : stats_reply.tasks[i].status = "pending"
    /\ stats_reply.kind = "GET_ALL_TASKS"
          => /\ stats_reply.stats.total = Len(stats_reply.tasks)
             /\ stats_reply.stats.done = WithStatus(stats_reply, "done")
             /\ stats_reply.stats.pending = WithStatus(stats_reply, "pending")

\* ------------------------------------------------ lookup_worker, step by step
\* lookup_worker, lines 53-60: the LOOKUP_WORKER datagram is sent for the task the
\* pass is at (line 100); when sendto raises, the call returns None
LookupSend(ok) ==
    /\ lock
    /\ pass.pc = "loop"
    /\ pass.i <= Len(pass.queue_copy)
    /\ task_results[CurrentTask].status # "done"
    /\ IF ok
       THEN /\ lookup' = [sent |-> 1, answered |-> FALSE]
            /\ pass' = [pass EXCEPT !.pc = "lookup"]
       ELSE /\ lookup' = [sent |-> 0, answered |-> FALSE]
            /\ pass' = [pass EXCEPT !.i = @ + 1, !.worker_address = NoAddress]
    /\ UNCHANGED <<ns_vars, stats_reply, disp_reply, proc_vars, task_queue, task_results,
                   task_id_counter, worker_busy, live_stats, lock, handlers,
                   post_replied, get_reply, task_sent, net_vars, worker>>

\* recvfrom under settimeout(2.0): the NameService's response, or socket.timeout
LookupOutcomes == {"reply", "timeout"}

\* lookup_worker, lines 61-74, and try_dispatch_tasks, lines 101-102: the call
\* returns the address of the response, or None after the one recvfrom timed out or
\* the response carried no address; the task is skipped when there is no address or
\* the endpoint is busy
LookupReceive(outcome) ==
    /\ lock
    /\ pass.pc = "lookup"
    /\ lookup' = [lookup EXCEPT !.answered = (outcome = "reply")]
    /\ LET address == LookupWorker(task_results[CurrentTask].type, outcome = "reply")
       IN IF SkipTask(worker_busy, address)
          THEN pass' = [pass EXCEPT !.i = @ + 1, !.pc = "loop", !.worker_address = address]
          ELSE pass' = [pass EXCEPT !.pc = "send", !.worker_address = address]
    /\ UNCHANGED <<ns_vars, stats_reply, disp_reply, proc_vars, task_queue, task_results,
                   task_id_counter, worker_busy, live_stats, lock, handlers,
                   post_replied, get_reply, task_sent, net_vars, worker>>

\* The Dispatcher and a worker, the NameService answering a lookup or not
LookupNext ==
    \/ \E type \in Types : PostTask(type, <<"a", "b">>)
    \/ \E t \in DOMAIN handlers : PostReply(t)
    \/ \E m \in DOMAIN rr_net : ResultReturn(m)
    \/ \E t \in DOMAIN handlers : ResultClearBusy(t)
    \/ \E t \in DOMAIN handlers : PassBegin(t)
    \/ PassEnd
    \/ \E ok \in BOOLEAN : LookupSend(ok)
    \/ \E outcome \in LookupOutcomes : LookupReceive(outcome)
    \/ PassSend("sent")
    \/ PassMark
    \/ \E ip \in WorkerHosts, wtype \in Types : WorkerRegister(ip, wtype)
    \/ \E ip \in WorkerHosts : WorkerBind(ip)
    \/ \E ip \in WorkerHosts : \E m \in task_net : WorkerProcess(ip, m)

SpecLookup == Init /\ [][LookupNext]_vars

\* C26: lookup_worker reports the worker as unavailable for want of an answer only
\* after ten LOOKUP_WORKER datagrams went unanswered: when the call returns without
\* a response having arrived, it has sent ten.
C26_LookupRetries ==
    [][(/\ pass.pc = "lookup"
        /\ pass'.pc = "loop"
        /\ ~lookup'.answered)
          => lookup'.sent = 10]_vars

\* this step is the except branch of try_dispatch_tasks: the pass was about to send
\* and goes on without a TASK datagram having been sent
FailedSendStep ==
    /\ lock
    /\ pass.pc = "send"
    /\ pass' # pass
    /\ task_sent' = task_sent

\* C27: when resolving the host or sending the TASK datagram fails, the task keeps
\* its place in the queue and its status pending, the endpoint is not marked busy
\* (the pass marks an endpoint busy and removes a task only for the TASK datagram it
\* has just sent), the pass goes on with the next task, and every later pass starts
\* from the whole queue, so it comes to the task again.
C27_SendFailure ==
    [][/\ FailedSendStep
            => /\ task_queue' = task_queue
               /\ CurrentTask \in Range(task_queue')
               /\ task_results'[CurrentTask].status = "pending"
               /\ worker_busy' = worker_busy
               /\ pass'.pc = "loop"
               /\ pass'.i = pass.i + 1
       /\ (lock /\ pass.pc = "mark" /\ pass' # pass)
            => /\ task_sent # <<>>
               /\ task_sent[Len(task_sent)] = [task_id |-> CurrentTask,
                                               to |-> pass.worker_address]
       /\ (~lock /\ lock') => pass'.queue_copy = task_queue]_vars

\* a later pass is again about to send a task whose earlier send failed: the task is
\* queued and pending, its endpoint is not busy, and assigned_worker is left from the
\* failed attempt
C27_Witness ==
    /\ lock
    /\ pass.pc = "send"
    /\ CurrentTask \in Range(task_queue)
    /\ task_results[CurrentTask].status = "pending"
    /\ task_results[CurrentTask].assigned_worker # NoAddress
    /\ ~BusyGet(worker_busy, pass.worker_address)
    /\ \A q \in DOMAIN task_sent : task_sent[q].task_id # CurrentTask

\* C28: a task leaves the queue only in the dispatch pass, at the step that follows
\* the sending of its TASK datagram: whenever an id that was queued is no longer
\* queued, the step is the pass's (lines 110-111) and the last TASK datagram sent
\* carries that id.
C28_OnlyPassRemoves ==
    [][\A id \in Range(task_queue) :
          id \notin Range(task_queue')
              => /\ lock
                 /\ pass.pc = "mark"
                 /\ CurrentTask = id
                 /\ task_sent # <<>>
                 /\ task_sent[Len(task_sent)].task_id = id]_vars

\* this step starts the handler of a RESULT_RETURN whose task id is not in the table
UnknownResultStep ==
    /\ BagSize(rr_net') = BagSize(rr_net) - 1
    /\ \E t \in DOMAIN handlers' :
          /\ t.kind = "RESULT" /\ ~t.found
          /\ handlers' = BagAdd(handlers, t)

\* C29: a RESULT_RETURN naming an unknown task id is answered and has no other
\* effect: its handler changes neither the task table, the queue, the busy table nor
\* the statistics, and no TASK datagram is sent by it, also not by a dispatch pass
\* it starts.
C29_UnknownIdNoEffect ==
    [][/\ UnknownResultStep
            => UNCHANGED <<task_results, task_queue, worker_busy, live_stats, task_sent>>
       /\ \A t \in DOMAIN handlers :
            (/\ t.kind = "RESULT" /\ ~t.found /\ t.pc = "clear"
             /\ handlers' = BagAdd(BagRemove(handlers, t), [t EXCEPT !.pc = "dispatch"]))
                => UNCHANGED <<task_results, task_queue, worker_busy, live_stats,
                               task_sent>>
       /\ (lock /\ pass.thread.kind = "RESULT" /\ ~pass.thread.found /\ pass' # pass)
            => UNCHANGED <<task_results, task_queue, worker_busy, live_stats,
                           task_sent>>]_vars

\* ------------------------------------- datagrams that no branch is written for
\* A raw datagram: bytes that json.loads turns into a mapping with "type" (well
\* formed), or bytes that do not decode
RawDatagram(wellformed, type) == [wellformed |-> wellformed, type |-> type]
\* msg_type None
NoneType == "None"
\* shared/protocol.py decode_message: (type, data), or (None, {"error": ...}) when
\* decoding raises; the call itself never raises
DecodeMessage_raises(raw) ==
    IF raw.wellformed THEN [raised |-> FALSE, type |-> raw.type]
    ELSE [raised |-> TRUE, type |-> NoneType]
DecodeMessage(raw) ==
    IF raw.wellformed THEN [raised |-> FALSE, type |-> raw.type]
    ELSE [raised |-> FALSE, type |-> NoneType]

\* the opcodes handle_request and dispatcher_loop have a branch for
NsOpcodes == {"REGISTER_WORKER", "LOOKUP_WORKER", "DEREGISTER_WORKER", "HEARTBEAT",
              "LIST_WORKERS"}
DispatcherOpcodes == {"POST_TASK", "GET_RESULT", "RESULT_RETURN", "GET_ALL_TASKS",
                      "GET_STATS"}
\* datagrams sent to either service: undecodable bytes, an opcode nobody knows, and
\* opcodes of the other service
RawDatagrams ==
    {RawDatagram(FALSE, ""), RawDatagram(TRUE, "FOO"),
     RawDatagram(TRUE, "POST_TASK"), RawDatagram(TRUE, "LOOKUP_WORKER")}

\* handle_request, lines 52-57 and the else branch, lines 114-119: a decode that
\* raised ends the handler without a response; any other type without a branch is
\* answered {"error": "Unknown message type"}
HandleOther(raw) ==
    LET m == DecodeMessage(raw)
    IN /\ m.type \notin NsOpcodes
       /\ ns_request' = NsRequest(m.type, "", NoAddress, "")
       /\ ns_reply' = IF m.raised THEN NoReply
                      ELSE NsResponse(m.type, "", "error", NoAddress, 0, {})
       /\ UNCHANGED <<registry, now>>

\* the response dispatcher_loop sent itself, and the type of the datagram it answers
DispatcherReply(type, error) == [type |-> type, error |-> error]

\* dispatcher_loop, lines 393-395 and the else branch, lines 409-411, run by the
\* loop itself: {"error": "Invalid message type"}
DispatchOther(raw) ==
    LET m == DecodeMessage(raw)
    IN /\ m.type \notin DispatcherOpcodes
       /\ disp_reply' = IF m.raised THEN DispatcherReply(m.type, "none")
                        ELSE DispatcherReply(m.type, "Invalid message type")
       /\ UNCHANGED <<ns_vars, disp_vars, net_vars, worker, lookup, stats_reply,
                      proc_vars>>

\* The NameService and the Dispatcher, each sent requests and datagrams it has no
\* branch for
OtherNext ==
    \/ /\ \/ \E wtype \in Types : HandleRegister(wtype, "ip1", Address("ip1"))
          \/ \E wtype \in Types : HandleLookup(wtype)
          \/ HandleDeregister("ip1")
          \/ \E raw \in RawDatagrams : HandleOther(raw)
       /\ UNCHANGED <<disp_vars, serve_vars, proc_vars, net_vars, worker>>
    \/ \E raw \in RawDatagrams : DispatchOther(raw)
    \/ PostTask("reverse", <<"a", "b">>)
    \/ \E t \in DOMAIN handlers : PostReply(t)
    \/ \E t \in DOMAIN handlers : PassBegin(t)
    \/ PassEnd
    \/ PassLookup(TRUE)
    \/ PassSend("sent")
    \/ PassMark
    \/ \E m \in task_net : TaskLost(m)

SpecOther == Init /\ [][OtherNext]_vars

Outstanding(E) ==
    {id \in DOMAIN task_results :
        /\ \E i \in 1..Len(task_sent) : task_sent[i].task_id = id /\ task_sent[i].to = E
        /\ task_results[id].status # "done"}

\* C31: for every endpoint E at most one task that was sent to E is still without a
\* stored result, and worker_busy[E] is true exactly when there is such a task
\* (stated for the states in which no handler runs, so that no handler is between
\* storing a result and clearing the flag, or between sending and marking).
C31_OneOutstanding ==
    Quiescent =>
        \A E \in Addresses :
            /\ Cardinality(Outstanding(E)) <= 1
            /\ BusyGet(worker_busy, E) <=> Outstanding(E) # {}

\* ------------------------------------------------------------------ C32
\* task id was sent to endpoint E
SentTo(id, E) ==
    \E i \in 1..Len(task_sent) : task_sent[i].task_id = id /\ task_sent[i].to = E
\* the tasks that occupy endpoint E: sent to E, and no RESULT_RETURN handler has yet
\* cleared the flag for them (no result stored, or the handler is before line 285)
Occupying(E) ==
    {id \in DOMAIN task_results :
        /\ SentTo(id, E)
        /\ \/ task_results[id].status # "done"
           \/ \E t \in DOMAIN handlers :
                 t.kind = "RESULT" /\ t.pc = "clear" /\ t.task_id = id}
\* the dispatch pass that handle_result_return (line 287) started for a task whose
\* assigned_worker is E is at a queued task that resolves to E (lines 97-100)
ResultPassAt(E) ==
    /\ pass.thread.kind = "RESULT"
    /\ pass.thread.found
    /\ task_results[pass.thread.task_id].assigned_worker = E
    /\ pass.pc = "loop"
    /\ pass.i <= Len(pass.queue_copy)
    /\ task_results[CurrentTask].status # "done"
    /\ LookupWorker(task_results[CurrentTask].type, TRUE) = E
\* the pass of the task's own POST_TASK handler is over (the handler has replied) and
\* left the task in the queue because endpoint E is busy
SkippedBusy(id, E) ==
    /\ id \in Range(task_queue)
    /\ id \in DOMAIN post_replied
    /\ post_replied[id] = 1
    /\ LookupWorker(task_results[id].type, TRUE) = E
    /\ BusyGet(worker_busy, E)
\* every task skipped for a busy endpoint is sent to it in the end (fair scheduling)
SkippedIsSent ==
    \A id \in 1..MaxTasks : \A E \in Addresses : SkippedBusy(id, E) ~> SentTo(id, E)

\* C32: the dispatch pass started by the RESULT_RETURN of a task that occupied
\* endpoint E sends the queued task resolving to E that it comes to (so the first
\* one in the queue) to E, unless another task, sent to E after the flag was
\* cleared, occupies E at that moment; the task it goes on to send is the TASK
\* datagram that leaves for E, and the task is removed from the queue.
C32_SentAfterResult ==
    [][/\ \A E \in Addresses :
             (ResultPassAt(E) /\ pass' # pass) => (pass'.pc = "send" \/ Occupying(E) # {})
       /\ (pass.pc = "send" /\ pass' # pass) =>
             /\ TaskSentNow
             /\ LastSent = [task_id |-> CurrentTask, to |-> pass.worker_address]
       /\ (pass.pc = "mark" /\ pass' # pass) => CurrentTask \notin Range(task_queue')]_vars

\* the pass of the RESULT_RETURN handler of task 1 is over and has sent task 2, which
\* the pass of its own POST_TASK handler had skipped (that handler has replied)
C32_Witness ==
    /\ pass.thread.kind = "RESULT"
    /\ pass.thread.task_id = 1
    /\ pass.pc = "loop"
    /\ pass.i > Len(pass.queue_copy)
    /\ pass.queue_copy = <<2>>
    /\ SentTo(2, Address("ip1"))
    /\ 2 \in DOMAIN post_replied
    /\ post_replied[2] = 1

\* ------------------------------------------------------------------ C33
\* C33: with no handler running, the counters kept in live_stats (what GET_STATS
\* reports) agree with the counts taken from the task table (what GET_ALL_TASKS
\* reports): total_tasks is the number of tasks, completed_tasks the number of done
\* tasks and open_tasks the number of pending tasks.
C33_CountersAgree ==
    Quiescent =>
        /\ live_stats.total_tasks = AllTasksStats(task_results).total
        /\ live_stats.completed_tasks = AllTasksStats(task_results).done
        /\ live_stats.open_tasks = AllTasksStats(task_results).pending
        /\ 0 <= live_stats.open_tasks
        /\ live_stats.completed_tasks <= live_stats.total_tasks

\* ----------------------------------------- a running worker and its heartbeats
\* send_heartbeat, line 179: time.sleep(10)
HEARTBEAT_PERIOD == 10
\* the time of round n of the loop of send_heartbeat (n = 0, 1, ...; the thread is
\* started at time 0, right after the registration)
NextRound_late(n) == (HEARTBEAT_TIMEOUT + 1) * n
NextRound(n) == HEARTBEAT_PERIOD * n

\* send_heartbeat, lines 173-175, and the HEARTBEAT branch of handle_request: round
\* n of the loop of the worker on ip1; the datagram is delivered
HeartbeatRound ==
    /\ worker["ip1"].state = "listening"
    /\ now = NextRound(CountOp(sent, "HEARTBEAT"))
    /\ sent' = BagAdd(sent, Datagram("HEARTBEAT", 0, None))
    /\ HandleHeartbeat("ip1")
    /\ UNCHANGED <<disp_vars, net_vars, worker, serve_vars, main, attempt, exit_status,
                   task_threads, received>>

\* d seconds pass; the heartbeat thread wakes up when its sleep is over
BeatAdvance(d) ==
    /\ now + d <= NextRound(CountOp(sent, "HEARTBEAT"))
    /\ Advance(d)
    /\ UNCHANGED <<disp_vars, net_vars, worker, serve_vars, proc_vars>>

BeatTickSteps == {1, HEARTBEAT_PERIOD}

\* The worker on ip1 has registered as "reverse" at time 0 and keeps running; the
\* NameService answers LOOKUP_WORKER and LIST_WORKERS at any time, and a worker of
\* the other type on ip2 comes and goes
BeatNext ==
    \/ HeartbeatRound
    \/ \E d \in BeatTickSteps : BeatAdvance(d)
    \/ /\ \/ \E wtype \in Types : HandleLookup(wtype)
          \/ HandleList
          \/ HandleRegister("upper", "ip2", Address("ip2"))
          \/ HandleHeartbeat("ip2")
          \/ HandleDeregister("ip2")
       /\ UNCHANGED <<disp_vars, net_vars, worker, serve_vars, proc_vars>>

SpecBeat == RoundTripInit /\ [][BeatNext]_vars

\* C34: while the registered worker keeps running and its heartbeats, one every 10
\* time units, are delivered, it is never reported as expired: at every moment a
\* LOOKUP_WORKER for its type would return its address, every LOOKUP_WORKER response
\* for its type did, and every LIST_WORKERS response lists it.
C34_NeverExpired ==
    /\ NsLookup(registry, "reverse", now).kind = "address"
    /\ NsLookup(registry, "reverse", now).address = Address("ip1")
    /\ (ns_reply.op = "LOOKUP_WORKER" /\ ns_reply.type = "reverse")
          => (ns_reply.kind = "address" /\ ns_reply.address = Address("ip1"))
    /\ ns_reply.op = "LIST_WORKERS"
          => [type |-> "reverse", address |-> Address("ip1")] \in ns_reply.workers

\* a LOOKUP_WORKER answered with the address more than HEARTBEAT_TIMEOUT after the
\* registration, three heartbeats later
C34_Witness ==
    /\ now > HEARTBEAT_TIMEOUT
    /\ CountOp(sent, "HEARTBEAT") >= 3
    /\ ns_reply.op = "LOOKUP_WORKER"
    /\ ns_reply.type = "reverse"
    /\ ns_reply.address = Address("ip1")

\* ------------------------------------------------------------------ C35
\* C35: no handler waits for the reply of another component while it holds the
\* mutex: when the dispatch pass has sent LOOKUP_WORKER and waits in recvfrom for
\* the response, the mutex is free (so that a GET_RESULT handler can take it).
C35_NoWaitUnderMutex ==
    (pass.pc = "lookup" /\ lookup.sent = 1) => ~lock

\* ------------------------------------------------------------------ C36
\* C36: the Dispatcher sends the TASK datagram of a task id at most once: no two
\* sends carry the same id, and a task that was sent is out of the queue (except
\* within the pass that has just sent it and is about to remove it, lines 109-111),
\* whether or not a RESULT_RETURN arrives.
C36_SentOnce ==
    /\ \A i, j \in 1..Len(task_sent) :
          i # j => task_sent[i].task_id # task_sent[j].task_id
    /\ \A i \in 1..Len(task_sent) :
          task_sent[i].task_id \in Range(task_queue)
              => (lock /\ pass.pc = "mark" /\ CurrentTask = task_sent[i].task_id)

\* the TASK of task 1 was sent and lost and no result came back; the pass of the
\* POST_TASK handler of task 2 runs later and does not find task 1 in the queue
C36_Witness ==
    /\ Len(task_sent) = 1
    /\ task_sent[1].task_id = 1
    /\ task_results[1].status = "pending"
    /\ task_net = {}
    /\ rr_net = <<>>
    /\ pass.thread.kind = "POST"
    /\ pass.thread.task_id = 2
    /\ pass.queue_copy = <<2>>
    /\ pass.i > Len(pass.queue_copy)

\* ------------------------------------------------------------------ C37
\* C37: no step sends a TASK datagram to the endpoint of a starting worker that is
\* registered (so that LOOKUP_WORKER returns its address) and has not yet bound its
\* listening port.
C37_BoundBeforeLookup ==
    [][TaskSentNow =>
          \A ip \in IPs : LastSent.to = Address(ip) => worker[ip].state # "registered"]_vars

\* ------------------------------------- workers that come and go on two hosts
\* more than HEARTBEAT_TIMEOUT passes: every registry entry expires
ExpirySteps == {HEARTBEAT_TIMEOUT + 1}

\* run_worker, lines 267-270, of a worker process that is killed and started again
\* at once: it registers again and listens on the same port
WorkerRestart(ip) ==
    /\ worker[ip].state = "listening"
    /\ registry' = NsRegister(registry, RegisterContent(worker[ip].type, Address(ip)), ip, now)
    /\ UNCHANGED <<now, ns_reply, ns_request>>
    /\ UNCHANGED <<disp_vars, serve_vars, proc_vars, net_vars, worker>>

\* The Dispatcher with a reverse worker on ip1 that is registered and listens, may be
\* restarted (it registers again) and may shut down (it deregisters), and a reverse
\* worker on ip2 that starts later (its registration replaces the entry of the
\* type); time may pass until the entry is expired
BusyNext ==
    \/ PostTask("reverse", <<"a", "b">>)
    \/ \E t \in DOMAIN handlers : PostReply(t)
    \/ \E m \in DOMAIN rr_net : ResultReturn(m)
    \/ \E t \in DOMAIN handlers : ResultClearBusy(t)
    \/ \E t \in DOMAIN handlers : PassBegin(t)
    \/ PassEnd
    \/ PassLookup(TRUE)
    \/ PassSend("sent")
    \/ PassMark
    \/ WorkerRegister("ip2", "reverse")
    \/ WorkerBind("ip2")
    \/ WorkerRestart("ip1")
    \/ WorkerShutdown("ip1")
    \/ \E ip \in IPs : \E m \in task_net : WorkerProcess(ip, m)
    \/ /\ \E d \in ExpirySteps : Advance(d)
       /\ UNCHANGED <<disp_vars, serve_vars, proc_vars, net_vars, worker>>

SpecBusy == RoundTripInit /\ [][BusyNext]_vars

\* this step is line 285 of the RESULT_RETURN handler of a task whose
\* assigned_worker is E
ClearStep(E) ==
    \E t \in DOMAIN handlers :
        /\ t.kind = "RESULT"
        /\ t.pc = "clear"
        /\ t.found
        /\ task_results[t.task_id].assigned_worker = E
        /\ handlers' = BagAdd(BagRemove(handlers, t), [t EXCEPT !.pc = "dispatch"])

\* C38: worker_busy[E] goes from true to false only in the RESULT_RETURN handler of a
\* task whose assigned_worker is E; a step that changes the registry (registration,
\* deregistration) or lets time pass (expiry) leaves worker_busy as it is; and while
\* worker_busy[E] is true no TASK is sent to E.
C38_BusyClearedByResult ==
    [][/\ \A E \in Addresses :
             (BusyGet(worker_busy, E) /\ ~BusyGet(worker_busy', E)) => ClearStep(E)
       /\ (registry' # registry \/ now' # now) => worker_busy' = worker_busy
       /\ TaskSentNow => ~BusyGet(worker_busy, LastSent.to)]_vars

\* task 1 was sent to ip1:6000 and has no result, the worker has deregistered, the
\* endpoint is still busy, and task 2 has been left in the queue by the pass of its
\* POST_TASK handler
C38_Witness ==
    /\ registry = {}
    /\ SentTo(1, Address("ip1"))
    /\ task_results[1].status = "pending"
    /\ BusyGet(worker_busy, Address("ip1"))
    /\ 2 \in Range(task_queue)
    /\ 2 \in DOMAIN post_replied
    /\ ~lock

\* ------------------------------------------------------------------ C39
\* C39: LOOKUP_WORKER and LIST_WORKERS leave the registry as it is, so an expired
\* entry that was not deregistered stays; and a HEARTBEAT from the address of an
\* expired entry sets its last_seen to now, after which a LOOKUP_WORKER for its type
\* returns its address again, with no REGISTER_WORKER in between.
C39_ExpiredRevived ==
    [][now' = now =>
         /\ ns_request'.op \in {"LOOKUP_WORKER", "LIST_WORKERS"} => registry' = registry
         /\ ns_request'.op = "HEARTBEAT" =>
              \A e \in registry :
                  (e.address = Address(ns_request'.src) /\ ~IsLive(e, now)) =>
                      /\ [e EXCEPT !.last_seen = now] \in registry'
                      /\ NsLookup(registry', e.type, now).kind = "address"
                      /\ NsLookup(registry', e.type, now).address = e.address]_vars

\* at time 31 a HEARTBEAT from ip1 has set the last_seen of ip1's entry to now, and
\* the entry of ip2, last seen at time 0 and expired, is still in the registry
C39_Witness ==
    /\ now = HEARTBEAT_TIMEOUT + 1
    /\ ns_request.op = "HEARTBEAT"
    /\ ns_request.src = "ip1"
    /\ ns_reply.n = 1
    /\ registry = {[type |-> "reverse", address |-> Address("ip1"), last_seen |-> now],
                   [type |-> "upper", address |-> Address("ip2"), last_seen |-> 0]}

\* ------------------------------------------------------------------ C40
\* C40: whenever the mutex is free, the pending queue holds no id twice, and every
\* id in it is a task of the task table that has status pending and for which no
\* TASK datagram was sent.
C40_QueueContent ==
    ~lock =>
        /\ \A i, j \in 1..Len(task_queue) : i # j => task_queue[i] # task_queue[j]
        /\ \A id \in Range(task_queue) :
              /\ id \in DOMAIN task_results
              /\ task_results[id].status = "pending"
              /\ \A k \in 1..Len(task_sent) : task_sent[k].task_id # id

\* the mutex is free, task 1 was sent and waits for its result, and task 2, skipped
\* by the pass of its POST_TASK handler, is the queue
C40_Witness ==
    /\ ~lock
    /\ task_queue = <<2>>
    /\ SentTo(1, Address("ip1"))
    /\ task_results[1].status = "pending"
    /\ 2 \in DOMAIN post_replied
====
